---- MODULE Spec2Model ----
(***************************************************************************)
(* The 2048 board engine of dqn_2048.game.environment: StateBuilder builds *)
(* a State, and seeded(), collapsed(direction), is_collapsible() and       *)
(* clone() act on it.  Python lists are objects: the grid is a list of     *)
(* references to row lists, so the model keeps a heap of row lists and a   *)
(* State holds the ids of its rows.  Python indices are 0-based; TLA+      *)
(* sequences are 1-based, so list[k] is written list[k + 1].               *)
(***************************************************************************)
EXTENDS Integers, Sequences, FiniteSets, TLC

VARIABLES
    builder,          \* the StateBuilder's fields, [size, unit]
    heap,             \* row-list id -> the list's contents
    states,           \* "self" / "copy" -> the State object, [size, unit, _board]
    op,               \* the last call: name, target, direction, index, raised, ret, and
                      \* history: again (repeats the move before it), moved (follows
                      \* a move that returned true)
    pre,              \* history: each State's grid as it was before the last call
    seeds,            \* history: per State, the seeded() calls that placed a tile
    array,            \* the argument of a direct call of State._collapse
    collapsed_array   \* the list that call returned

vars == <<builder, heap, states, op, pre, seeds, array, collapsed_array>>

----------------------------------------------------------------------------
(* Bounds of the exploration *)

MaxSize == 3          \* largest size given to set_size
MaxSeeds == 4         \* seeded() calls explored per State
MaxLen == 4           \* longest list given to _collapse directly
MaxTile == 4          \* largest element of such a list
CloneMaxSize == 2     \* largest size explored with a live clone
CloneMaxSeeds == 1    \* seeded() calls explored per State with a live clone

Sizes == (-1) .. MaxSize
Units == {0, 2}
CloneSizes == 1 .. CloneMaxSize
CloneUnits == {2}
Lines == UNION {[1 .. n -> 0 .. MaxTile] : n \in 0 .. MaxLen}
Cells == {0, 2, 4}
Backgrounds == {0, 2}

----------------------------------------------------------------------------
(* Python helpers *)

None == "None"

\* a returned value, tagged with its Python type
bool(b) == [bool |-> b]

int(n) == [int |-> n]

ref(name) == [ref |-> name]

NoValue == [none |-> None]

Min(a, b) == IF a < b THEN a ELSE b

Max(a, b) == IF a < b THEN b ELSE a

\* a Python list holding the elements of s, in order
list(s) == s \o <<>>

\* [x] * n
Repeat(x, n) == list([k \in 1 .. n |-> x])

\* list(reversed(s))
Reversed(s) == list([k \in 1 .. Len(s) |-> s[Len(s) + 1 - k]])

\* s[:n]
Slice(s, n) == SubSeq(s, 1, IF n >= 0 THEN Min(n, Len(s)) ELSE Max(Len(s) + n, 0))

Range(f) == {f[x] : x \in DOMAIN f}

RECURSIVE SeqSum(_)
SeqSum(s) == IF s = <<>> THEN 0 ELSE s[1] + SeqSum(Tail(s))

\* the largest id in use, 0 on an empty heap
MaxId(h) == IF DOMAIN h = {} THEN 0 ELSE CHOOSE m \in DOMAIN h : \A k \in DOMAIN h : k <= m

----------------------------------------------------------------------------
(* direction.py *)

Directions == {"UP", "DOWN", "LEFT", "RIGHT"}

----------------------------------------------------------------------------
(* state.py *)

_EMPTY == 0

\* [[_EMPTY] * size] * size without row[:]: every row is the same list
RowLists_shared(base, size) == [r \in 1 .. size |-> base + 1]

\* [[_EMPTY] * size] without the outer * size: one row at most
RowLists_single(base, size) == [r \in 1 .. Min(size, 1) |-> base + r]

\* the ids of the row lists of a new grid, one fresh list per row
RowLists(base, size) == [r \in 1 .. size |-> base + r]

\* State.__init__: the object and the heap holding its rows
State(h, size, unit) ==
    LET ids == RowLists(MaxId(h), size)
        row == Repeat(_EMPTY, size)
    IN  [heap |-> [id \in DOMAIN h \cup Range(ids) |->
                      IF id \in Range(ids) THEN row ELSE h[id]],
         obj |-> [size |-> size, unit |-> unit, _board |-> ids]]

\* the nested-list value of self._board
Grid(h, o) == list([r \in 1 .. Len(o._board) |-> h[o._board[r]]])

\* self._board is other._board: the same lists, not equal contents
__eq___is(h, o, other) == o._board = other._board

\* State.__eq__
__eq__(h, o, other) == Grid(h, o) = Grid(h, other)

\* copy.copy(self): a new State on the same row lists
copy_shallow(h, o) == [heap |-> h, obj |-> o]

\* copy.deepcopy(self): every list reachable from self is copied once
deepcopy(h, o) ==
    LET off == MaxId(h)
        old == Range(o._board)
        new == {id + off : id \in old}
    IN  [heap |-> [id \in DOMAIN h \cup new |->
                      IF id \in DOMAIN h THEN h[id] ELSE h[id - off]],
         obj |-> [o EXCEPT !._board = [r \in 1 .. Len(o._board) |-> o._board[r] + off]]]

\* old_state = self: no copy at all
clone_alias(h, o) == [heap |-> h, obj |-> o]

\* State.clone
clone(h, o) == deepcopy(h, o)

\* _peel without the reversal for RIGHT and DOWN
_peel_unreversed(h, o, direction, index) ==
    IF direction \in {"LEFT", "RIGHT"}
    THEN h[o._board[index + 1]]
    ELSE list([r \in 1 .. Len(o._board) |-> h[o._board[r]][index + 1]])

\* State._peel
_peel(h, o, direction, index) ==
    LET arr == IF direction \in {"LEFT", "RIGHT"}
               THEN h[o._board[index + 1]]
               ELSE list([r \in 1 .. Len(o._board) |-> h[o._board[r]][index + 1]])
    IN  IF direction \in {"RIGHT", "DOWN"} THEN Reversed(arr) ELSE arr

\* the for loop of State._paved, from position i on
RECURSIVE _paved_loop(_, _, _, _, _, _)
_paved_loop(h, o, direction, index, arr, i) ==
    IF i >= Len(arr) THEN h
    ELSE LET tile == arr[i + 1]
             h1 == IF direction \in {"LEFT", "RIGHT"}
                   THEN [h EXCEPT ![o._board[index + 1]][i + 1] = tile]
                   ELSE [h EXCEPT ![o._board[i + 1]][index + 1] = tile]
         IN  _paved_loop(h1, o, direction, index, arr, i + 1)

\* _paved without the reversal for RIGHT and DOWN
_paved_unreversed(h, o, direction, index, arr) ==
    _paved_loop(h, o, direction, index, Slice(arr, o.size), 0)

\* State._paved: the heap after the line is written back
_paved(h, o, direction, index, arr) ==
    LET cut == Slice(arr, o.size)
        ord == IF direction \in {"RIGHT", "DOWN"} THEN Reversed(cut) ELSE cut
    IN  _paved_loop(h, o, direction, index, ord, 0)

\* the for loop of State._collapse, from element k on
RECURSIVE _collapse_loop(_, _, _, _, _)
_collapse_loop(arr, empty_element, k, acc, is_merging) ==
    IF k > Len(arr) THEN acc
    ELSE LET element == arr[k] IN
         IF element = empty_element
         THEN _collapse_loop(arr, empty_element, k + 1, acc, is_merging)
         ELSE IF acc # <<>> /\ element = acc[Len(acc)] /\ ~is_merging
         THEN _collapse_loop(arr, empty_element, k + 1,
                             [acc EXCEPT ![Len(acc)] = @ + element], TRUE)
         ELSE _collapse_loop(arr, empty_element, k + 1, Append(acc, element), FALSE)

\* the loop of _collapse with one slip: "chain" never sets is_merging,
\* "assign" writes = where the code writes +=, "slide" never merges, "any"
\* merges a tile into its predecessor without comparing them
RECURSIVE _collapse_slip(_, _, _, _, _, _)
_collapse_slip(arr, empty_element, k, acc, is_merging, slip) ==
    IF k > Len(arr) THEN acc
    ELSE LET element == arr[k] IN
         IF element = empty_element
         THEN _collapse_slip(arr, empty_element, k + 1, acc, is_merging, slip)
         ELSE IF /\ slip # "slide"
                 /\ acc # <<>>
                 /\ (slip = "any" \/ element = acc[Len(acc)])
                 /\ ~is_merging
         THEN _collapse_slip(arr, empty_element, k + 1,
                             [acc EXCEPT ![Len(acc)] = IF slip = "assign" THEN element
                                                       ELSE @ + element],
                             slip # "chain", slip)
         ELSE _collapse_slip(arr, empty_element, k + 1, Append(acc, element), FALSE, slip)

_collapse_chain(arr, empty_element) ==
    LET acc == _collapse_slip(arr, empty_element, 1, <<>>, FALSE, "chain")
    IN  acc \o Repeat(empty_element, Len(arr) - Len(acc))

_collapse_assign(arr, empty_element) ==
    LET acc == _collapse_slip(arr, empty_element, 1, <<>>, FALSE, "assign")
    IN  acc \o Repeat(empty_element, Len(arr) - Len(acc))

_collapse_any(arr, empty_element) ==
    LET acc == _collapse_slip(arr, empty_element, 1, <<>>, FALSE, "any")
    IN  acc \o Repeat(empty_element, Len(arr) - Len(acc))

_collapse_slide(arr, empty_element) ==
    LET acc == _collapse_slip(arr, empty_element, 1, <<>>, FALSE, "slide")
    IN  acc \o Repeat(empty_element, Len(arr) - Len(acc))

\* _collapse without the padding: only the merged tiles are returned
_collapse_unpadded(arr, empty_element) == _collapse_loop(arr, empty_element, 1, <<>>, FALSE)

\* _collapse merging from the far end of the list
_collapse_trailing(arr, empty_element) ==
    LET acc == Reversed(_collapse_loop(Reversed(arr), empty_element, 1, <<>>, FALSE))
    IN  acc \o Repeat(empty_element, Len(arr) - Len(acc))

\* State._collapse
_collapse(arr, empty_element) ==
    LET acc == _collapse_loop(arr, empty_element, 1, <<>>, FALSE)
    IN  acc \o Repeat(empty_element, Len(arr) - Len(acc))

\* the for loop of State.collapsed, from line i on
RECURSIVE collapsed_loop(_, _, _, _)
collapsed_loop(h, o, direction, i) ==
    IF i >= o.size THEN h
    ELSE collapsed_loop(
             _paved(h, o, direction, i, _collapse(_peel(h, o, direction, i), _EMPTY)),
             o, direction, i + 1)

\* State.collapsed: the heap once old_state is dropped, and the flag returned
collapsed(h, o, direction) ==
    LET old_state == clone(h, o)
        h1 == collapsed_loop(old_state.heap, o, direction, 0)
    IN  [heap |-> [id \in DOMAIN h |-> h1[id]],
         ret |-> ~__eq__(h1, o, old_state.obj)]

\* flattened_board of State.seeded
RECURSIVE Flattened(_)
Flattened(grid) == IF grid = <<>> THEN <<>> ELSE grid[1] \o Flattened(Tail(grid))

\* empty_indices without its filter: every index, empty or not
all_indices(h, o) ==
    LET flattened_board == Flattened(Grid(h, o))
    IN  0 .. Len(flattened_board) - 1

\* empty_indices of State.seeded (0-based)
empty_indices(h, o) ==
    LET flattened_board == Flattened(Grid(h, o))
    IN  {index \in 0 .. Len(flattened_board) - 1 : flattened_board[index + 1] = _EMPTY}

\* the assignment of State.seeded, for the index random.choice drew
seeded_at(h, o, index) ==
    [h EXCEPT ![o._board[(index \div o.size) + 1]][(index % o.size) + 1] = o.unit]

True == [raised |-> None, ret |-> bool(TRUE)]

False == [raised |-> None, ret |-> bool(FALSE)]

IndexError == [raised |-> "IndexError", ret |-> NoValue]

\* the loops of State.is_collapsible, from (i, j) on
RECURSIVE is_collapsible_loop(_, _, _, _)
is_collapsible_loop(h, o, i, j) ==
    IF i >= o.size THEN False
    ELSE IF j >= o.size THEN is_collapsible_loop(h, o, i + 1, 0)
    ELSE LET row == h[o._board[i + 1]]
             column == list([r \in 1 .. Len(o._board) |-> h[o._board[r]][i + 1]])
         IN  IF row[j + 1] = _EMPTY \/ column[j + 1] = _EMPTY THEN True
             ELSE IF j < o.size
             THEN IF j + 1 >= Len(row) THEN IndexError
                  ELSE IF row[j + 1] = row[j + 2] THEN True
                  ELSE IF j + 1 >= Len(column) THEN IndexError
                  ELSE IF column[j + 1] = column[j + 2] THEN True
                  ELSE is_collapsible_loop(h, o, i, j + 1)
             ELSE is_collapsible_loop(h, o, i, j + 1)

\* State.is_collapsible
is_collapsible(h, o) == is_collapsible_loop(h, o, 0, 0)

----------------------------------------------------------------------------
(* The calls *)

Targets == DOMAIN states

View == [t \in Targets |-> Grid(heap, states[t])]

NoCall == [name |-> "None", target |-> None, direction |-> None, index |-> NoValue,
           raised |-> None, ret |-> NoValue, again |-> FALSE, moved |-> FALSE]

Call(name, target, direction, out) ==
    [name |-> name, target |-> target, direction |-> direction, index |-> NoValue,
     raised |-> out.raised, ret |-> out.ret,
     again |-> /\ name = "collapsed"
               /\ op.name = "collapsed"
               /\ op.target = target
               /\ op.direction = direction,
     moved |-> /\ op.name = "collapsed"
               /\ op.target = target
               /\ op.ret = bool(TRUE)]

Returned(v) == [raised |-> None, ret |-> v]

\* StateBuilder.__init__
Init ==
    /\ builder = [size |-> 0, unit |-> 0]
    /\ heap = <<>>
    /\ states = <<>>
    /\ op = NoCall
    /\ pre = <<>>
    /\ seeds = <<>>
    /\ array = <<>>
    /\ collapsed_array = <<>>

\* StateBuilder.set_size
set_size(size) ==
    /\ Targets = {}
    /\ builder' = [builder EXCEPT !.size = size]
    /\ op' = Call("set_size", "builder", None, Returned(ref("builder")))
    /\ UNCHANGED <<heap, states, pre, seeds, array, collapsed_array>>

\* StateBuilder.set_unit
set_unit(unit) ==
    /\ Targets = {}
    /\ builder' = [builder EXCEPT !.unit = unit]
    /\ op' = Call("set_unit", "builder", None, Returned(ref("builder")))
    /\ UNCHANGED <<heap, states, pre, seeds, array, collapsed_array>>

\* StateBuilder.build
build ==
    /\ Targets = {}
    /\ LET new == State(heap, builder.size, builder.unit)
       IN  /\ heap' = new.heap
           /\ states' = [t \in {"self"} |-> new.obj]
    /\ seeds' = [t \in {"self"} |-> 0]
    /\ pre' = View
    /\ op' = Call("build", "builder", None, Returned(ref("self")))
    /\ UNCHANGED <<builder, array, collapsed_array>>

\* t.seeded()
seeded(t, budget) ==
    /\ t \in Targets
    /\ LET empties == empty_indices(heap, states[t])
       IN  IF empties = {}
           THEN /\ op' = Call("seeded", t, None, Returned(int(_EMPTY)))
                /\ UNCHANGED <<heap, seeds>>
           ELSE /\ seeds[t] < budget
                /\ \E index \in empties : heap' = seeded_at(heap, states[t], index)
                /\ seeds' = [seeds EXCEPT ![t] = @ + 1]
                /\ op' = Call("seeded", t, None, Returned(int(states[t].unit)))
    /\ pre' = View
    /\ UNCHANGED <<builder, states, array, collapsed_array>>

\* t.collapsed(direction)
collapsed_call(t, direction) ==
    /\ t \in Targets
    /\ LET out == collapsed(heap, states[t], direction)
       IN  /\ heap' = out.heap
           /\ op' = Call("collapsed", t, direction, Returned(bool(out.ret)))
    /\ pre' = View
    /\ UNCHANGED <<builder, states, seeds, array, collapsed_array>>

\* t.is_collapsible()
is_collapsible_call(t) ==
    /\ t \in Targets
    /\ op' = Call("is_collapsible", t, None, is_collapsible(heap, states[t]))
    /\ pre' = View
    /\ UNCHANGED <<builder, heap, states, seeds, array, collapsed_array>>

\* copy = self.clone()
clone_call ==
    /\ Targets = {"self"}
    /\ LET new == clone(heap, states["self"])
       IN  /\ heap' = new.heap
           /\ states' = [t \in {"self", "copy"} |-> IF t = "self" THEN states[t] ELSE new.obj]
    /\ seeds' = [t \in {"self", "copy"} |-> seeds["self"]]
    /\ pre' = View
    /\ op' = Call("clone", "self", None, Returned(ref("copy")))
    /\ UNCHANGED <<builder, array, collapsed_array>>

\* del copy: the caller lets go of the clone and its lists are collected
discard ==
    /\ "copy" \in Targets
    /\ LET keep == Range(states["self"]._board)
       IN  heap' = [id \in keep |-> heap[id]]
    /\ states' = [t \in {"self"} |-> states[t]]
    /\ seeds' = [t \in {"self"} |-> seeds[t]]
    /\ pre' = [t \in {"self"} |-> View[t]]
    /\ op' = Call("del", "copy", None, Returned(NoValue))
    /\ UNCHANGED <<builder, array, collapsed_array>>

\* one episode's board: the builder, then calls on the board; a clone is
\* dropped before the next call
Next ==
    \/ \E size \in Sizes : set_size(size)
    \/ \E unit \in Units : set_unit(unit)
    \/ build
    \/ Targets = {"self"} /\ seeded("self", MaxSeeds)
    \/ \E direction \in Directions : Targets = {"self"} /\ collapsed_call("self", direction)
    \/ Targets = {"self"} /\ is_collapsible_call("self")
    \/ clone_call
    \/ discard

Spec == Init /\ [][Next]_vars

\* a board and its clone, both in use
NextClone ==
    \/ \E size \in CloneSizes : set_size(size)
    \/ \E unit \in CloneUnits : set_unit(unit)
    \/ build
    \/ \E t \in {"self", "copy"} : seeded(t, CloneMaxSeeds)
    \/ \E t \in {"self", "copy"}, direction \in Directions : collapsed_call(t, direction)
    \/ \E t \in {"self", "copy"} : is_collapsible_call(t)
    \/ clone_call
    \/ discard

SpecClone == Init /\ [][NextClone]_vars

\* State._collapse(array, State._EMPTY), called on its own
InitLine ==
    /\ builder = [size |-> 0, unit |-> 0]
    /\ heap = <<>>
    /\ states = <<>>
    /\ op = NoCall
    /\ pre = <<>>
    /\ seeds = <<>>
    /\ array \in Lines
    /\ collapsed_array = <<>>

_collapse_call ==
    /\ op.name = "None"
    /\ collapsed_array' = _collapse(array, _EMPTY)
    /\ op' = Call("_collapse", "State", None, Returned(NoValue))
    /\ UNCHANGED <<builder, heap, states, pre, seeds, array>>

NextLine == _collapse_call

SpecLine == InitLine /\ [][NextLine]_vars

\* a grid of size n: one line along an axis holds the given cells, every
\* other cell holds the background value
GridWith(n, axis, i, line, background) ==
    [r \in 1 .. n |-> [c \in 1 .. n |->
        IF axis = "row" /\ r = i THEN line[c]
        ELSE IF axis = "column" /\ c = i THEN line[r]
        ELSE background]]

\* a State whose _board holds a given grid
InitBoard ==
    \E n \in 1 .. MaxLen, axis \in {"row", "column"}, i \in 1 .. MaxLen,
       background \in Backgrounds :
        /\ i <= n
        /\ \E line \in [1 .. n -> Cells] :
              LET new == State(<<>>, n, 2)
                  grid == GridWith(n, axis, i, line, background)
              IN  /\ builder = [size |-> n, unit |-> 2]
                  /\ heap = [id \in DOMAIN new.heap |->
                                grid[CHOOSE r \in 1 .. n : new.obj._board[r] = id]]
                  /\ states = [t \in {"self"} |-> new.obj]
                  /\ pre = [t \in {"self"} |-> grid]
        /\ op = NoCall
        /\ seeds = [t \in {"self"} |-> 0]
        /\ array = <<>>
        /\ collapsed_array = <<>>

\* array = self._peel(direction, index)
_peel_call(direction, index) ==
    /\ op.name = "None"
    /\ index < states["self"].size
    /\ array' = _peel(heap, states["self"], direction, index)
    /\ op' = [Call("_peel", "self", direction, Returned(NoValue)) EXCEPT !.index = int(index)]
    /\ pre' = View
    /\ UNCHANGED <<builder, heap, states, seeds, collapsed_array>>

\* self._paved(direction, index, array), array being a line peeled before
_paved_call(direction, index) ==
    /\ op.name = "_peel"
    /\ index < states["self"].size
    /\ heap' = _paved(heap, states["self"], direction, index, array)
    /\ op' = [Call("_paved", "self", direction, Returned(NoValue)) EXCEPT !.index = int(index)]
    /\ pre' = View
    /\ UNCHANGED <<builder, states, seeds, array, collapsed_array>>

NextBoard ==
    \/ \E direction \in Directions, index \in 0 .. MaxLen - 1 : _peel_call(direction, index)
    \/ \E direction \in Directions, index \in 0 .. MaxLen - 1 : _paved_call(direction, index)
    \/ \E direction \in Directions : op.name = "None" /\ collapsed_call("self", direction)

SpecBoard == InitBoard /\ [][NextBoard]_vars

----------------------------------------------------------------------------
(* What the properties speak of *)

\* the State the last call was made on, and its grid now and before the call
Called == op.target \in Targets

Now == View[op.target]

Before == pre[op.target]

Positions(g) == {<<r, c>> : r \in 1 .. Len(g), c \in 1 .. Len(g)}

EmptyCells(g) == {p \in Positions(g) : g[p[1]][p[2]] = 0}

Tiles(s) == SelectSeq(s, LAMBDA x : x # 0)

\* line i of the grid along the axis of a direction, in grid order
AxisLine(g, direction, i) ==
    IF direction \in {"LEFT", "RIGHT"} THEN g[i] ELSE [r \in 1 .. Len(g) |-> g[r][i]]

RECURSIVE GridSum(_)
GridSum(g) == IF g = <<>> THEN 0 ELSE SeqSum(g[1]) + GridSum(Tail(g))

\* two equal tiles next to each other in a line
EqualNeighbours(s) == \E k \in 1 .. Len(s) - 1 : s[k] # 0 /\ s[k] = s[k + 1]

EqualNeighboursIn(g, directions) ==
    \E i \in 1 .. Len(g), direction \in directions : EqualNeighbours(AxisLine(g, direction, i))

\* ys is xs with its tiles kept or merged in pairs of equals, each at most once
RECURSIVE PairedUp(_, _)
PairedUp(xs, ys) ==
    IF xs = <<>> THEN ys = <<>>
    ELSE /\ ys # <<>>
         /\ \/ ys[1] = xs[1] /\ PairedUp(Tail(xs), Tail(ys))
            \/ /\ Len(xs) >= 2
               /\ xs[1] = xs[2]
               /\ ys[1] = xs[1] + xs[2]
               /\ PairedUp(Tail(Tail(xs)), Tail(ys))

\* line i of the grid in the order its tiles slide in: the cell at the
\* target edge of the direction first
SlideOrder(g, direction, i) ==
    LET line == AxisLine(g, direction, i)
    IN  IF direction \in {"RIGHT", "DOWN"}
        THEN [k \in 1 .. Len(line) |-> line[Len(line) + 1 - k]]
        ELSE line

\* no empty cell comes before a tile
Packed(s) == \A k \in 1 .. Len(s) - 1 : s[k] = 0 => s[k + 1] = 0

----------------------------------------------------------------------------
(* C1 *)

\* C1, as stated: a collapsed(d) called right after collapsed(d) on the same
\* board, with nothing in between, returns false and leaves the grid as the
\* first call left it.
C1_SecondCollapseIsNoOp ==
    (op.name = "collapsed" /\ op.again) => (op.ret = bool(FALSE) /\ Now = Before)

\* C1, amended: the second collapsed(d) returns false and leaves the grid
\* unchanged exactly when the first call left no two equal tiles next to each
\* other in a line along d; otherwise it merges them and returns true.
C1_SecondCollapseMergesLeftovers ==
    (op.name = "collapsed" /\ op.again) =>
        /\ (op.ret = bool(FALSE) /\ Now = Before) <=> ~EqualNeighboursIn(Before, {op.direction})
        /\ op.ret = bool(TRUE) <=> EqualNeighboursIn(Before, {op.direction})

C1_Witness ==
    /\ op.name = "collapsed"
    /\ op.again
    /\ op.ret = bool(FALSE)
    /\ \E p \in Positions(Now) : Now[p[1]][p[2]] > states[op.target].unit

----------------------------------------------------------------------------
(* C2 *)

\* C2: in one move every tile takes part in at most one merge: the tiles of
\* the collapsed line are the tiles of the line, in order, each kept or
\* merged with one equal neighbour, never a merged tile merged again;
\* [2,2,2,2] gives [4,4,0,0] and [0,2,2,4] gives [4,4,0,0].
C2_EachTileMergesOnce ==
    op.name = "_collapse" =>
        /\ PairedUp(Tiles(array), Tiles(collapsed_array))
        /\ array = <<2, 2, 2, 2>> => collapsed_array = <<4, 4, 0, 0>>
        /\ array = <<0, 2, 2, 4>> => collapsed_array = <<4, 4, 0, 0>>

C2_Witness ==
    /\ op.name = "_collapse"
    /\ array = <<0, 2, 2, 4>>
    /\ collapsed_array = <<4, 4, 0, 0>>

----------------------------------------------------------------------------
(* C3 *)

\* C3: is_collapsible() returns false when the board has no empty cell and no
\* row or column holds two equal values next to each other, and returns true
\* in every other case.
C3_IsCollapsibleDecides ==
    (op.name = "is_collapsible" /\ Called) =>
        /\ op.raised = None
        /\ op.ret = bool(~(EmptyCells(Now) = {} /\ ~EqualNeighboursIn(Now, {"LEFT", "UP"})))

----------------------------------------------------------------------------
(* C4 *)

\* C4: on a board of size >= 1 reached from build() by seeded() and
\* collapsed(d), each of collapsed(d), is_collapsible(), seeded() and clone()
\* returns normally and raises nothing.
C4_CallsNeverRaise ==
    (op.name \in {"collapsed", "is_collapsible", "seeded", "clone"}
        /\ Called /\ states["self"].size >= 1) => op.raised = None

----------------------------------------------------------------------------
(* C5 *)

\* C5: collapsed(d) leaves the sum of every line along d unchanged and never
\* increases the number of tiles in it, so the sum of the whole grid is
\* unchanged too.
C5_CollapseConservesSums ==
    (op.name = "collapsed" /\ Called) =>
        /\ \A i \in 1 .. Len(Now) :
              LET was == AxisLine(Before, op.direction, i)
                  now == AxisLine(Now, op.direction, i)
              IN  /\ SeqSum(now) = SeqSum(was)
                  /\ Len(Tiles(now)) <= Len(Tiles(was))
        /\ GridSum(Now) = GridSum(Before)

C5_Witness ==
    /\ op.name = "collapsed"
    /\ Called
    /\ \E i \in 1 .. Len(Now) :
          Len(Tiles(AxisLine(Now, op.direction, i)))
              < Len(Tiles(AxisLine(Before, op.direction, i)))

----------------------------------------------------------------------------
(* C6 *)

\* C6: on a board with no empty cell seeded() returns the empty value 0 and
\* leaves every cell as it was.
C6_SeededOnFullBoard ==
    (op.name = "seeded" /\ Called /\ EmptyCells(Before) = {}) =>
        (op.ret = int(0) /\ Now = Before)

C6_Witness ==
    /\ op.name = "seeded"
    /\ Called
    /\ Len(Before) = 2
    /\ EmptyCells(Before) = {}

----------------------------------------------------------------------------
(* C7 *)

\* the cells in which two grids of the same size differ
Changed(g, g0) == {p \in Positions(g) : g[p[1]][p[2]] # g0[p[1]][p[2]]}

\* C7, as stated: on a board with an empty cell seeded() returns unit, sets
\* exactly one cell, empty before, to unit and leaves the others alone, so
\* the number of empty cells drops by exactly one.
C7_SeededFillsOneCell ==
    (op.name = "seeded" /\ Called /\ EmptyCells(Before) # {}) =>
        /\ op.ret = int(states[op.target].unit)
        /\ \E p \in EmptyCells(Before) :
              /\ Now[p[1]][p[2]] = states[op.target].unit
              /\ Changed(Now, Before) \subseteq {p}
        /\ Cardinality(EmptyCells(Now)) = Cardinality(EmptyCells(Before)) - 1

\* C7, amended: on a board with an empty cell seeded() returns unit, sets one
\* cell, empty before, to unit and leaves the others alone; the number of
\* empty cells drops by exactly one unless unit is 0, the empty value itself,
\* and then the grid stays as it was.
C7_SeededFillsOneCellUnlessUnitIsEmpty ==
    (op.name = "seeded" /\ Called /\ EmptyCells(Before) # {}) =>
        /\ op.ret = int(states[op.target].unit)
        /\ \E p \in EmptyCells(Before) :
              /\ Now[p[1]][p[2]] = states[op.target].unit
              /\ Changed(Now, Before) \subseteq {p}
        /\ IF states[op.target].unit = 0
           THEN Now = Before
           ELSE Cardinality(EmptyCells(Now)) = Cardinality(EmptyCells(Before)) - 1

C7_Witness ==
    /\ op.name = "seeded"
    /\ Called
    /\ states[op.target].unit # 0
    /\ Cardinality(EmptyCells(Before)) >= 2
    /\ Tiles(Flattened(Before)) # <<>>
    /\ Cardinality(Changed(Now, Before)) = 1

----------------------------------------------------------------------------
(* C8 *)

\* C8: clone() returns a board equal to the original, and afterwards a
\* collapsed(d) or seeded() on either of the two leaves the other's grid
\* unchanged.
C8_CloneIsIndependent ==
    /\ op.name = "clone" =>
          /\ __eq__(heap, states["copy"], states["self"])
          /\ View["copy"] = pre["self"]
    /\ (op.name \in {"collapsed", "seeded"} /\ Targets = {"self", "copy"}) =>
          \A t \in Targets \ {op.target} : View[t] = pre[t]

C8_Witness ==
    /\ op.name \in {"collapsed", "seeded"}
    /\ op.target = "copy"
    /\ View["copy"] # pre["copy"]
    /\ View["self"] = pre["self"]
    /\ Tiles(Flattened(View["self"])) # <<>>

----------------------------------------------------------------------------
(* C9 *)

\* some direction in which collapsed(d) on the State just asked returns true
SomeMoveChanges == \E direction \in Directions :
    collapsed(heap, states[op.target], direction).ret

----------------------------------------------------------------------------
(* C10 *)

\* C10: collapsed(d) returns true when the grid after the move differs from
\* the grid before it in some cell, and false when every cell is unchanged.
C10_CollapsedReportsChange ==
    (op.name = "collapsed" /\ Called) => (op.ret = bool(Now # Before))

C10_Witness ==
    /\ op.name = "collapsed"
    /\ Called
    /\ op.ret = bool(TRUE)
    /\ Now # Before

----------------------------------------------------------------------------
(* C11 *)

\* every cell of a grid is empty
AllEmpty(g) == \A r \in 1 .. Len(g) : \A c \in 1 .. Len(g[r]) : g[r][c] = _EMPTY

\* n rows of n cells each
Square(g, n) == Len(g) = n /\ \A r \in 1 .. Len(g) : Len(g[r]) = n

\* no two rows of the board are the same list
RowsIndependent(o) == \A r, q \in 1 .. Len(o._board) : r # q => o._board[r] # o._board[q]

\* C11, as stated: set_size(n) and set_unit(u) return the builder itself;
\* build() never raises, whatever size and unit are, and returns a board
\* whose size and unit are the builder's, whose grid is size x size and all
\* empty, and whose rows are lists independent of each other.
C11_BuildGivesSquareEmptyGrid ==
    /\ op.name \in {"set_size", "set_unit"} => op.ret = ref("builder")
    /\ op.name = "build" =>
          /\ op.raised = None
          /\ op.ret = ref("self")
          /\ states["self"].size = builder.size
          /\ states["self"].unit = builder.unit
          /\ Square(View["self"], builder.size)
          /\ AllEmpty(View["self"])
          /\ RowsIndependent(states["self"])

\* C11, amended: as stated for size >= 0; for a negative size build() also
\* succeeds and the board keeps that size, but its grid has no row at all:
\* the grid is max(size, 0) x max(size, 0).
C11_BuildGivesEmptyGridOfSizeOrNone ==
    /\ op.name \in {"set_size", "set_unit"} => op.ret = ref("builder")
    /\ op.name = "build" =>
          /\ op.raised = None
          /\ op.ret = ref("self")
          /\ states["self"].size = builder.size
          /\ states["self"].unit = builder.unit
          /\ Square(View["self"], Max(builder.size, 0))
          /\ AllEmpty(View["self"])
          /\ RowsIndependent(states["self"])

C11_Witness ==
    /\ op.name = "build"
    /\ builder = [size |-> 3, unit |-> 2]
    /\ Len(View["self"]) = 3
    /\ Cardinality(Range(states["self"]._board)) = 3

----------------------------------------------------------------------------
(* C12 *)

\* v = unit * 2^k for some k >= 0 (unit >= 1)
RECURSIVE UnitTimesPowerOfTwo(_, _)
UnitTimesPowerOfTwo(v, unit) ==
    \/ v = unit
    \/ v > unit /\ v % 2 = 0 /\ UnitTimesPowerOfTwo(v \div 2, unit)

\* C12: on a board built with unit >= 1, after any calls of seeded() and
\* collapsed(d), every cell is 0 or unit * 2^k for some k >= 0.
C12_CellsAreUnitTimesPowersOfTwo ==
    \A t \in Targets : states[t].unit >= 1 =>
        \A p \in Positions(View[t]) :
            \/ View[t][p[1]][p[2]] = _EMPTY
            \/ UnitTimesPowerOfTwo(View[t][p[1]][p[2]], states[t].unit)

C12_Witness ==
    /\ op.name = "collapsed"
    /\ Called
    /\ states[op.target].unit = 2
    /\ \E p \in Positions(Now) : Now[p[1]][p[2]] = 8

----------------------------------------------------------------------------
(* C13 *)

\* The builder is not touched once build() has returned, so its fields are
\* the size and unit every board was made with.
\*
\* C13, as stated: after any calls of seeded() and collapsed(d) the grid has
\* exactly size rows of exactly size cells, and size and unit are the values
\* the board was built with.
C13_GridIsSizeBySize ==
    \A t \in Targets :
        /\ Square(View[t], states[t].size)
        /\ states[t].size = builder.size
        /\ states[t].unit = builder.unit

\* C13, amended: the grid has exactly max(size, 0) rows of max(size, 0)
\* cells (a board built with a negative size has no row), and size and unit
\* are the values the board was built with.
C13_GridIsSizeBySizeOrEmpty ==
    \A t \in Targets :
        /\ Square(View[t], Max(states[t].size, 0))
        /\ states[t].size = builder.size
        /\ states[t].unit = builder.unit

C13_Witness ==
    /\ op.name = "collapsed"
    /\ Called
    /\ op.ret = bool(TRUE)
    /\ states[op.target].size = 3
    /\ Cardinality(EmptyCells(Now)) = 6

----------------------------------------------------------------------------
(* C14 *)

\* the length of the run of equal elements a sequence starts with
RECURSIVE LeadingRun(_)
LeadingRun(s) ==
    IF Len(s) >= 2 /\ s[2] = s[1] THEN 1 + LeadingRun(Tail(s)) ELSE Min(Len(s), 1)

\* some m equal elements in a row
HasRun(s, m) == \E k \in 1 .. Len(s) - m + 1 : \A j \in k .. k + m - 1 : s[j] = s[k]

\* each run of m tiles x becomes m \div 2 tiles 2x, then one tile x if m is odd
RECURSIVE RunsMerged(_)
RunsMerged(s) ==
    IF s = <<>> THEN <<>>
    ELSE LET x == s[1]
             m == LeadingRun(s)
         IN  [k \in 1 .. m \div 2 |-> 2 * x] \o [k \in 1 .. m % 2 |-> x]
                 \o RunsMerged(SubSeq(s, m + 1, Len(s)))

\* C14: when a line along d holds three or four equal tiles in a row,
\* collapsed(d) merges them in pairs from the edge the tiles slide toward:
\* in slide order [x,x,x] gives [2x,x,0] and [x,x,x,x] gives [2x,2x,0,0],
\* whatever else the line holds and for each of the four directions; RIGHT
\* turns the row [2,2,2] into [0,2,4].
C14_RunsMergeInPairsFromTheEdge ==
    (op.name = "collapsed" /\ Called) =>
        \A i \in 1 .. Len(Now) :
            LET was == SlideOrder(Before, op.direction, i)
                now == SlideOrder(Now, op.direction, i)
            IN  /\ HasRun(Tiles(was), 3) =>
                      /\ Tiles(now) = RunsMerged(Tiles(was))
                      /\ Packed(now)
                /\ \A x \in Cells \ {0} :
                      /\ was = <<x, x, x>> => now = <<2 * x, x, 0>>
                      /\ was = <<x, x, x, x>> => now = <<2 * x, 2 * x, 0, 0>>
                /\ (op.direction = "RIGHT" /\ Before[i] = <<2, 2, 2>>) => Now[i] = <<0, 2, 4>>

C14_Witness ==
    /\ op.name = "collapsed"
    /\ Called
    /\ op.direction = "RIGHT"
    /\ \E i \in 1 .. Len(Now) : Before[i] = <<2, 2, 2>> /\ Now[i] = <<0, 2, 4>>

----------------------------------------------------------------------------
(* C15 *)

\* C15: after collapsed(d) every line along d is packed against the target
\* edge of d (LEFT: column 0, RIGHT: column size-1, UP: row 0, DOWN: row
\* size-1), no empty cell between that edge and a tile, and its tiles are the
\* tiles it had, in the same order from the edge, each kept or merged with
\* its equal neighbour.
C15_LinesPackedInOrder ==
    (op.name = "collapsed" /\ Called) =>
        \A i \in 1 .. Len(Now) :
            /\ Packed(SlideOrder(Now, op.direction, i))
            /\ PairedUp(Tiles(SlideOrder(Before, op.direction, i)),
                        Tiles(SlideOrder(Now, op.direction, i)))

C15_Witness ==
    /\ op.name = "collapsed"
    /\ Called
    /\ op.direction = "DOWN"
    /\ Len(Now) = 3
    /\ \E i \in 1 .. 3 :
          /\ AxisLine(Before, "DOWN", i) = <<2, 0, 4>>
          /\ AxisLine(Now, "DOWN", i) = <<0, 2, 4>>

----------------------------------------------------------------------------
(* C16 *)

\* the cells of line i along the axis of a direction
LineCells(g, direction, i) ==
    IF direction \in {"LEFT", "RIGHT"}
    THEN {p \in Positions(g) : p[1] = i}
    ELSE {p \in Positions(g) : p[2] = i}

----------------------------------------------------------------------------
(* C17 *)

\* C17: when collapsed(d) returns true the board has at least one empty cell,
\* and the seeded() called right after it places a tile and returns unit,
\* which is not the empty value 0.
C17_SeedAfterMoveSucceeds ==
    /\ (op.name = "collapsed" /\ Called /\ op.ret = bool(TRUE)) => EmptyCells(Now) # {}
    /\ (op.name = "seeded" /\ Called /\ op.moved) =>
          /\ op.ret = int(states[op.target].unit)
          /\ op.ret # int(_EMPTY)
          /\ Cardinality(EmptyCells(Now)) = Cardinality(EmptyCells(Before)) - 1

C17_Witness ==
    /\ op.name = "seeded"
    /\ Called
    /\ op.moved
    /\ op.ret = int(2)
    /\ Len(Now) = 2
    /\ Cardinality(EmptyCells(Now)) = 1

----------------------------------------------------------------------------
(* C18 *)

\* C18: after any calls of seeded() and collapsed(d), the sum of the cells of
\* a board is unit times the number of its seeded() calls that placed a tile
\* (those that returned unit).
C18_SumIsUnitTimesSeeds ==
    \A t \in Targets : GridSum(View[t]) = states[t].unit * seeds[t]

C18_Witness ==
    /\ op.name = "collapsed"
    /\ Called
    /\ op.ret = bool(TRUE)
    /\ seeds[op.target] = 4
    /\ GridSum(Now) = 8
    /\ Cardinality(Positions(Now) \ EmptyCells(Now)) = 2

====
